---- MODULE Spec2Model ----
(***************************************************************************)
(* Model of the aidss prompt-document protocol (cmd/aidss/main.go, the     *)
(* version that parses replies with encoding/xml).                         *)
(*                                                                         *)
(* Texts (file contents, prompt documents, replies, header values) are     *)
(* sequences of symbols.  A symbol is a string standing for one character  *)
(* (" ", "\t", "\n", ":") or for an indivisible run of non-space,          *)
(* non-markup characters ("In", "a", "a.tmp", ...), or for one markup tag  *)
(* of a reply.                                                             *)
(***************************************************************************)
EXTENDS Integers, Sequences, FiniteSets, TLC

VARIABLES
    doc,        \* SpecParse: the text handed to parsePromptFile
    prompt,     \* SpecParse: what parsePromptFile returned for doc
    reply,      \* SpecExtract: the reply text handed to the XML parse
    extracted,  \* SpecExtract: the sections the parse returned for reply
    ctx,        \* SpecContext: a call of buildContextMessages and its result
    att,        \* SpecAttach: a call of readInFilesContent and its result
    registry,   \* SpecRegistry: the provider registry of package llm
    watch,      \* SpecWatch: the directories, the watch list, pending events
    files,      \* the file system: path -> content, for the files that exist
    mutex,      \* the global mutex: the goroutine holding it, or NoHolder
    pc,         \* per goroutine: where it is in its handler
    loc,        \* per goroutine: the local variables of its handler
    log,        \* per goroutine: what its current handler run has logged
    crashed,    \* the program was terminated by an unrecovered panic
    events      \* number of events delivered so far

pureVars == <<doc, prompt, reply, extracted, ctx, att, registry, watch>>
mainVars == <<files, mutex, pc, loc, log, crashed, events>>
vars == <<doc, prompt, reply, extracted, ctx, att, registry, watch, files, mutex, pc,
          loc, log, crashed, events>>

\* ------------------------------------------------------------------------
\* Bounds
\* ------------------------------------------------------------------------
MaxLines == 3
MaxReply == 7
MaxEvents == 2
MaxDepth == 3
MaxIn == 2
MaxModels == 2
MaxNewDirs == 2

\* ------------------------------------------------------------------------
\* strings package
\* ------------------------------------------------------------------------
NL == "\n"

IsSpace(c) == c \in {" ", "\t", NL}

RECURSIVE TrimLeft(_)
TrimLeft(s) ==
    IF s = <<>> THEN s
    ELSE IF IsSpace(Head(s)) THEN TrimLeft(Tail(s)) ELSE s

RECURSIVE TrimRight(_)
TrimRight(s) ==
    IF s = <<>> THEN s
    ELSE IF IsSpace(s[Len(s)]) THEN TrimRight(SubSeq(s, 1, Len(s) - 1)) ELSE s

TrimSpace(s) == TrimRight(TrimLeft(s))

\* strings.Index(s, c) for a one-character needle; positions are 1-based
\* here and 0 stands for Go's -1.
Index(s, c) ==
    IF \E i \in 1..Len(s) : s[i] = c
    THEN CHOOSE i \in 1..Len(s) : s[i] = c /\ \A j \in 1..(i - 1) : s[j] # c
    ELSE 0

HasPrefix(s, c) == Len(s) > 0 /\ s[1] = c

\* strings.Split(s, "\n"): always at least one (possibly empty) piece.
RECURSIVE Split(_)
Split(s) ==
    LET i == Index(s, NL) IN
    IF i = 0 THEN <<s>>
    ELSE <<SubSeq(s, 1, i - 1)>> \o Split(SubSeq(s, i + 1, Len(s)))

\* Position of the first "\n" in s: a single line break taken as separator.
FirstNewline(s) == Index(s, NL)
\* Position of the first "\n\n" in s (1-based), 0 when there is none.
SepIndex(s) ==
    IF \E i \in 1..(Len(s) - 1) : s[i] = NL /\ s[i + 1] = NL
    THEN CHOOSE i \in 1..(Len(s) - 1) :
            /\ s[i] = NL /\ s[i + 1] = NL
            /\ \A j \in 1..(i - 1) : ~(s[j] = NL /\ s[j + 1] = NL)
    ELSE 0

\* strings.SplitN(s, "\n\n", 2)
SplitN2(s) ==
    LET i == SepIndex(s) IN
    IF i = 0 THEN <<s>>
    ELSE <<SubSeq(s, 1, i - 1), SubSeq(s, i + 2, Len(s))>>

\* strings.Fields(s): the maximal runs of non-space symbols, in order.
RECURSIVE FieldsFrom(_, _)
FieldsFrom(s, cur) ==
    IF s = <<>> THEN (IF cur = <<>> THEN <<>> ELSE <<cur>>)
    ELSE IF IsSpace(Head(s))
         THEN (IF cur = <<>> THEN <<>> ELSE <<cur>>) \o FieldsFrom(Tail(s), <<>>)
         ELSE FieldsFrom(Tail(s), Append(cur, Head(s)))

Fields(s) == FieldsFrom(s, <<>>)

\* A Go string made of the given symbols, as one TLA+ string (used for
\* file names, which are map keys and path components).
RECURSIVE Str(_)
Str(w) == IF w = <<>> THEN "" ELSE Head(w) \o Str(Tail(w))

StrEach(ws) == [i \in 1..Len(ws) |-> Str(ws[i])]

\* map[string]string with m[k] = v
Put(m, k, v) == [x \in (DOMAIN m) \cup {k} |-> IF x = k THEN v ELSE m[x]]

EmptyMap == [x \in {} |-> <<>>]

\* ------------------------------------------------------------------------
\* parsePromptFile
\* ------------------------------------------------------------------------
NoPrompt == [err |-> "none", InFiles |-> <<>>, OutFiles |-> <<>>,
             SysMsg |-> <<>>, PromptText |-> <<>>]

PromptErr(e) == [NoPrompt EXCEPT !.err = e]

\* The loop "for _, line := range lines" that collects the headers.
\* currentHeader is the variable declared before the loop; the header line
\* branch declares a second currentHeader with := whose scope is one
\* iteration, so the outer one keeps its zero value "" for the whole loop
\* and a continuation line stores the folded value under the key "".
\* Result: [err, headers].
RECURSIVE HeaderLoop(_, _, _, _, _)
HeaderLoop(lines, i, headers, currentHeader, currentValue) ==
    IF i > Len(lines) THEN [err |-> "", headers |-> headers]
    ELSE
        LET line == lines[i] IN
        IF HasPrefix(line, " ") \/ HasPrefix(line, "\t")
        THEN \* continuation line
             LET cv == currentValue \o <<" ">> \o TrimSpace(line) IN
             HeaderLoop(lines, i + 1, Put(headers, currentHeader, cv),
                        currentHeader, cv)
        ELSE \* new header line
             LET colonIndex == Index(line, ":") IN
             IF colonIndex = 0
             THEN [err |-> "Header line without colon", headers |-> headers]
             ELSE LET innerHeader == TrimSpace(SubSeq(line, 1, colonIndex - 1))
                      value == TrimSpace(SubSeq(line, colonIndex + 1, Len(line)))
                  IN  HeaderLoop(lines, i + 1, Put(headers, innerHeader, value),
                                 currentHeader, value)

\* The loop "for key, value := range headers": every key is visited once,
\* so the iteration order of the map does not show in the result.
HeaderValue(headers, key) ==
    IF key \in DOMAIN headers THEN headers[key] ELSE <<>>

\* parsePromptFile on the content of the file (the ReadFile error is the
\* caller's Absent case).
parsePromptFile(content) ==
    LET parts == SplitN2(content) IN
    IF Len(parts) # 2 THEN PromptErr("Invalid prompt file format")
    ELSE
        LET headerText == parts[1]
            lines      == Split(headerText)
            r          == HeaderLoop(lines, 1, EmptyMap, <<>>, <<>>)
        IN  IF r.err # "" THEN PromptErr(r.err)
            ELSE [err        |-> "",
                  InFiles    |-> StrEach(Fields(HeaderValue(r.headers, <<"In">>))),
                  OutFiles   |-> StrEach(Fields(HeaderValue(r.headers, <<"Out">>))),
                  SysMsg     |-> HeaderValue(r.headers, <<"Sysmsg">>),
                  PromptText |-> parts[2]]

\* The orders in which "for key, value := range headers" can visit the
\* keys of the map: Go leaves the iteration order of a map unspecified.
KeyOrders(headers) ==
    { o \in [1..Cardinality(DOMAIN headers) -> DOMAIN headers] :
         \A i, j \in 1..Cardinality(DOMAIN headers) : i # j => o[i] # o[j] }

\* A switch whose default case appends to InFiles as well.
AppendingSwitch(pr, key, value) ==
    IF key = <<"Sysmsg">> THEN [pr EXCEPT !.SysMsg = value]
    ELSE IF key = <<"Out">>
    THEN [pr EXCEPT !.OutFiles = pr.OutFiles \o StrEach(Fields(value))]
    ELSE [pr EXCEPT !.InFiles = pr.InFiles \o StrEach(Fields(value))]
\* The body of the range loop: "switch key" with its three cases.
HeaderSwitch(pr, key, value) ==
    IF key = <<"In">>
    THEN [pr EXCEPT !.InFiles = pr.InFiles \o StrEach(Fields(value))]
    ELSE IF key = <<"Out">>
    THEN [pr EXCEPT !.OutFiles = pr.OutFiles \o StrEach(Fields(value))]
    ELSE IF key = <<"Sysmsg">> THEN [pr EXCEPT !.SysMsg = value]
    ELSE pr   \* unknown headers are ignored

RECURSIVE RangeHeaders(_, _, _, _)
RangeHeaders(headers, order, i, pr) ==
    IF i > Len(order) THEN pr
    ELSE RangeHeaders(headers, order, i + 1,
                      HeaderSwitch(pr, order[i], headers[order[i]]))

\* What parsePromptFile can return for the content, one result for every
\* order in which the range loop can visit the headers.
ParseResults(content) ==
    LET parts == SplitN2(content) IN
    IF Len(parts) # 2 THEN { PromptErr("Invalid prompt file format") }
    ELSE
        LET r == HeaderLoop(Split(parts[1]), 1, EmptyMap, <<>>, <<>>) IN
        IF r.err # "" THEN { PromptErr(r.err) }
        ELSE { RangeHeaders(r.headers, o, 1,
                            [NoPrompt EXCEPT !.err = "", !.PromptText = parts[2]]) :
                 o \in KeyOrders(r.headers) }

\* ------------------------------------------------------------------------
\* processLLMResponse: the XML parse of the reply
\* ------------------------------------------------------------------------
\* The markup symbols of a reply.  Every other symbol is character data.
OpenTag(n) == "<OUT filename=\"" \o n \o "\">"
CloseTag == "</OUT>"
RootOpen == "<root>"
RootClose == "</root>"

\* File names a section or a declaration can carry.
FileNames == {"a", "b", "a.tmp", "inner"}

OpenTags == { OpenTag(n) : n \in FileNames }

\* Markup that is not well formed (a bare "<" or "&" in the text).
BadMarkup == {"<", "&"}

IsStart(tok) == tok \in OpenTags \cup {RootOpen}
IsEnd(tok) == tok \in {CloseTag, RootClose}
ElemName(tok) == IF tok \in {RootOpen, RootClose} THEN "root" ELSE "OUT"
FilenameAttr(tok) == CHOOSE n \in FileNames : OpenTag(n) = tok

NotParsed == [err |-> "none", OutFiles |-> <<>>]

\* xml.Unmarshal(wrapped, &root) with Root{OutFiles []OutFile `xml:"OUT"`}
\* and OutFile{Filename `xml:"filename,attr"`; Content `xml:",innerxml"`}.
\* The decoder keeps the stack of open elements and rejects an end tag that
\* does not match the innermost open element; an OUT element that is a
\* child of the root becomes one OutFile whose Content is the raw text
\* between its start tag and its own end tag; everything nested deeper is
\* skipped.  toks is the wrapped text, i the next symbol, stack the open
\* elements, open the position of the start tag of the current child of the
\* root, secs the OutFiles so far.
RECURSIVE XmlScan(_, _, _, _, _)
XmlScan(toks, i, stack, open, secs) ==
    IF i > Len(toks) THEN [err |-> "unexpected EOF", OutFiles |-> <<>>]
    ELSE
        LET tok == toks[i] IN
        IF tok \in BadMarkup THEN [err |-> "syntax error", OutFiles |-> <<>>]
        ELSE IF IsStart(tok)
        THEN XmlScan(toks, i + 1, Append(stack, ElemName(tok)),
                     IF Len(stack) = 1 THEN i ELSE open, secs)
        ELSE IF IsEnd(tok)
        THEN IF stack[Len(stack)] # ElemName(tok)
             THEN [err |-> "syntax error", OutFiles |-> <<>>]
             ELSE IF Len(stack) = 1
                  THEN [err |-> "", OutFiles |-> secs]  \* end of the root
                  ELSE IF Len(stack) = 2 /\ ElemName(tok) = "OUT"
                       THEN XmlScan(toks, i + 1, SubSeq(stack, 1, 1), 0,
                                Append(secs,
                                  [Filename |-> FilenameAttr(toks[open]),
                                   Content  |-> SubSeq(toks, open + 1, i - 1)]))
                       ELSE XmlScan(toks, i + 1,
                                    SubSeq(stack, 1, Len(stack) - 1), open, secs)
        ELSE XmlScan(toks, i + 1, stack, open, secs)   \* character data

\* The first match of <OUT\s+filename="([^"]+)">\s*(?s)(.*?)</OUT> at or
\* after position i: the first start tag that has an end tag after it, cut
\* at the first end tag.
RECURSIVE RegexScan(_, _, _)
RegexScan(toks, i, secs) ==
    LET starts == { k \in i..Len(toks) :
                      /\ toks[k] \in OpenTags
                      /\ \E j \in (k + 1)..Len(toks) : toks[j] = CloseTag }
    IN  IF starts = {} THEN secs
        ELSE LET k == CHOOSE x \in starts : \A y \in starts : x <= y
                 j == CHOOSE x \in (k + 1)..Len(toks) :
                         /\ toks[x] = CloseTag
                         /\ \A y \in (k + 1)..(x - 1) : toks[y] # CloseTag
             IN  RegexScan(toks, j + 1,
                           Append(secs, [Filename |-> FilenameAttr(toks[k]),
                                         Content  |-> SubSeq(toks, k + 1, j - 1)]))

\* The sections of a reply as a first-closing-tag match finds them.
FirstCloseSections(response) ==
    [err |-> "", OutFiles |-> RegexScan(response, 1, <<>>)]

\* The sections of a reply: wrap it in a root element and unmarshal.
XmlSections(response) ==
    LET wrappedResponse == <<RootOpen>> \o response \o <<RootClose>>
    IN  XmlScan(wrappedResponse, 1, <<>>, 0, <<>>)

\* outFileContents: the map from filename to content; a later section
\* with the same filename replaces the earlier one.
KeepContent(m, filename, content) ==
    IF filename \in DOMAIN m THEN m ELSE Put(m, filename, content)
SetContent(m, filename, content) == Put(m, filename, content)

RECURSIVE OutFileContents(_)
OutFileContents(secs) ==
    IF secs = <<>> THEN EmptyMap
    ELSE LET last == secs[Len(secs)]
             rest == OutFileContents(SubSeq(secs, 1, Len(secs) - 1))
         IN  SetContent(rest, last.Filename, last.Content)

\* ------------------------------------------------------------------------
\* Files, paths and the daemon's goroutines
\* ------------------------------------------------------------------------
Procs == {"p1", "p2"}
NoHolder == "nobody"

promptFn == "prompt.txt"
responseFn == "response.txt"

\* Paths are sequences of components relative to the directory that holds
\* the watched tree; <<>> is that directory itself (".").
watchPath == <<"w">>
pdfPath == <<"w", "x.pdf">>

\* filepath.Clean(path): the shortest spelling of the path.  A path as the
\* user typed it may hold "." components ("./w"); Clean drops them.
Clean(path) == SelectSeq(path, LAMBDA c : c # ".")

\* filepath.Join(dir, name) and filepath.Dir(path) return cleaned paths;
\* Dir(".") is ".".
Join(dir, name) == Clean(Append(dir, name))
Dir(path) ==
    LET c == Clean(path) IN
    IF c = <<>> THEN <<>> ELSE SubSeq(c, 1, Len(c) - 1)

Exists(fs, p) == p \in DOMAIN fs
Remove(fs, p) == [x \in (DOMAIN fs) \ {p} |-> fs[x]]
\* os.Rename(src, dst): dst is replaced in one step, src disappears.
Rename(fs, src, dst) == Put(Remove(fs, src), dst, fs[src])
\* ioutil.WriteFile opens the file with O_CREATE|O_TRUNC and then writes.
Truncate(fs, p) == Put(fs, p, <<>>)

\* sync.Mutex: Lock returns only when nobody holds the mutex.
CanLockAlways(m) == TRUE
CanLock(m) == m = NoHolder

NoLoc == [op |-> "none", path |-> <<>>, prompt |-> NoPrompt,
          messages |-> <<>>, response |-> <<>>, contents |-> EmptyMap,
          i |-> 0, warned |-> {}, start |-> EmptyMap, calls |-> 0,
          llmErr |-> FALSE, outcome |-> ""]

LogEntry(k, f) == [kind |-> k, name |-> f]

\* ------------------------------------------------------------------------
\* buildContextMessages, readInFilesContent
\* ------------------------------------------------------------------------
RECURSIVE CollectPaths(_, _, _)
CollectPaths(currentPath, wp, paths) ==
    LET ps == <<currentPath>> \o paths IN
    IF currentPath = wp THEN ps                     \* stop at the watch path
    ELSE IF Dir(currentPath) = currentPath THEN ps  \* stop at the root
    ELSE CollectPaths(Dir(currentPath), wp, ps)

RECURSIVE MessagesOf(_, _)
MessagesOf(fs, paths) ==
    IF paths = <<>> THEN <<>>
    ELSE LET p == Head(paths)
             u == IF Exists(fs, Join(p, promptFn))
                  THEN <<[Role |-> "user", Content |-> fs[Join(p, promptFn)]]>>
                  ELSE <<>>
             a == IF Exists(fs, Join(p, responseFn))
                  THEN <<[Role |-> "assistant", Content |-> fs[Join(p, responseFn)]]>>
                  ELSE <<>>
         IN  u \o a \o MessagesOf(fs, Tail(paths))

buildContextMessages(fs, path, wp) == MessagesOf(fs, CollectPaths(path, wp, <<>>))

InTag(n) == "<IN filename=\"" \o n \o "\">"

\* A path as the string the log shows: the components joined by "/".
RECURSIVE PathStr(_)
PathStr(path) ==
    IF path = <<>> THEN "."
    ELSE IF Len(path) = 1 THEN path[1]
    ELSE PathStr(SubSeq(path, 1, Len(path) - 1)) \o "/" \o path[Len(path)]

\* The tree root itself as the directory to resolve against.
TreeRootDir(wp) == Clean(wp)
\* parentDir := filepath.Dir(watchPath)
ParentDirOf(wp) == Dir(wp)

RECURSIVE ReadInLoop(_, _, _, _)
ReadInLoop(fs, inFiles, parentDir, acc) ==
    IF inFiles = <<>> THEN [err |-> "", content |-> acc]
    ELSE LET relPath == Head(inFiles)
             absPath == Join(parentDir, relPath)
         IN  IF ~Exists(fs, absPath)
             THEN [err |-> "error reading file " \o PathStr(absPath), content |-> <<>>]
             ELSE ReadInLoop(fs, Tail(inFiles), parentDir,
                             acc \o <<InTag(relPath), NL>> \o fs[absPath]
                                 \o <<NL, "</IN>", NL>>)

\* readInFilesContent without the error return: unreadable files are skipped.
ReadInFilesSkipping(fs, inFiles, wp) ==
    LET readable == SelectSeq(inFiles, LAMBDA f : Exists(fs, Join(ParentDirOf(wp), f)))
    IN  ReadInLoop(fs, readable, ParentDirOf(wp), <<>>)

readInFilesContent(fs, inFiles, wp) == ReadInLoop(fs, inFiles, ParentDirOf(wp), <<>>)

\* The user message handleUserMessage builds from the prompt text and the
\* attachment blocks.
UserContent(promptText, inFilesContent) ==
    promptText \o <<NL, NL>> \o
    (IF Len(inFilesContent) > 0
     THEN <<"The following files are attached:", NL>> \o inFilesContent \o <<NL>>
     ELSE <<>>)

\* ------------------------------------------------------------------------
\* The daemon: handleUserMessage, handlePDFAttachment, summarizePath
\* ------------------------------------------------------------------------
Ops == {"handleUserMessage", "handlePDFAttachment", "summarizePath"}

MainQuiet ==
    /\ files = EmptyMap
    /\ mutex = NoHolder
    /\ pc = [p \in Procs |-> "idle"]
    /\ loc = [p \in Procs |-> NoLoc]
    /\ log = [p \in Procs |-> <<>>]
    /\ crashed = FALSE
    /\ events = 0

NoCtx == [path |-> <<>>, watchPath |-> <<>>, paths |-> <<>>,
          messages |-> <<>>, built |-> FALSE]

NoAtt == [inFiles |-> <<>>, watchPath |-> <<>>, content |-> <<>>,
          err |-> "", read |-> FALSE]

\* providers and modelToProvider as package llm creates them: empty maps;
\* returned holds the result of the last call of Models or NewClient.
NoCall == [op |-> "none", model |-> "", models |-> <<>>, err |-> "",
           delegate |-> {}, delegated |-> FALSE]
NoRegistry == [providers |-> EmptyMap, modelToProvider |-> EmptyMap,
               returned |-> NoCall]

\* The directories below the watch path, the watch list, the pending events,
\* and the history: directories created and prompts written since the
\* start, directories handleUserMessage was started on.
NoWatch == [dirs |-> {}, watched |-> {}, queue |-> <<>>, triggered |-> {},
            created |-> {}, written |-> {}]

PureQuiet ==
    /\ doc = <<>>
    /\ prompt = NoPrompt
    /\ reply = <<>>
    /\ extracted = NotParsed
    /\ ctx = NoCtx
    /\ att = NoAtt
    /\ registry = NoRegistry
    /\ watch = NoWatch

\* Prompt documents the watched node can hold.
DocAB ==
    <<"In", ":", " ", "i", NL, "Out", ":", " ", "a", " ", "b", NL,
      "Sysmsg", ":", " ", "s", NL, NL, "body">>
DocTmp == <<"Out", ":", " ", "a.tmp", " ", "a", NL, NL, "body">>
DocBad == <<"Out", ":", " ", "a">>
MainDocs == {DocAB, DocTmp, DocBad}

\* Replies the model client can give.
RepA == <<OpenTag("a"), "x", CloseTag>>
RepNone == <<"x">>
RepBad == <<OpenTag("a"), "x">>
RepTmp == <<OpenTag("a"), "x", CloseTag, OpenTag("a.tmp"), "y", CloseTag>>
\* The section's content on lines of its own, as in TestProcessLLMResponse.
RepLines == <<OpenTag("a"), NL, "x", NL, CloseTag>>
\* Two top-level sections with the same filename.
RepTwice == <<OpenTag("a"), "x", CloseTag, OpenTag("a"), "y", CloseTag>>
ClientReplies == {RepA, RepTmp, RepNone, RepBad, RepLines, RepTwice}

SummaryReply == <<"summary">>
PdfText == <<"pdftext">>

OptionalFile(path, contents) ==
    { EmptyMap } \cup { Put(EmptyMap, path, c) : c \in contents }

Merge(f, g) == [x \in (DOMAIN f) \cup (DOMAIN g) |-> IF x \in DOMAIN g THEN g[x] ELSE f[x]]

Init ==
    /\ PureQuiet
    /\ \E fp \in OptionalFile(Join(watchPath, promptFn), MainDocs),
          fi \in OptionalFile(<<"i">>, {<<"alpha">>}),
          fa \in OptionalFile(<<"a">>, {<<"old">>}) :
          files = Merge(Merge(fp, fi), fa)
    /\ mutex = NoHolder
    /\ pc = [p \in Procs |-> "idle"]
    /\ loc = [p \in Procs |-> NoLoc]
    /\ log = [p \in Procs |-> <<>>]
    /\ crashed = FALSE
    /\ events = 0

Goto(p, label) == pc' = [pc EXCEPT ![p] = label]
Logs(p, entries) == log' = [log EXCEPT ![p] = log[p] \o entries]
At(p, label) == ~crashed /\ pc[p] = label

\* A write event (or a direct call) starts an operation in goroutine p.
Event(p) ==
    /\ ~crashed
    /\ pc[p] = "idle"
    /\ events < MaxEvents
    /\ events' = events + 1
    /\ \E op \in Ops :
          loc' = [loc EXCEPT ![p] =
                    [NoLoc EXCEPT !.op = op,
                                  !.path = IF op = "handlePDFAttachment"
                                           THEN pdfPath ELSE watchPath]]
    /\ Goto(p, "lock")
    /\ UNCHANGED <<files, mutex, log, crashed, pureVars>>

\* mutex.Lock() at the top of each of the three operations.
Lock(p) ==
    /\ At(p, "lock")
    /\ CanLock(mutex)
    /\ mutex' = p
    /\ loc' = [loc EXCEPT ![p].start = files]
    /\ Goto(p, CASE loc[p].op = "handleUserMessage" -> "hum_parse"
                 [] loc[p].op = "handlePDFAttachment" -> "pdf_extract"
                 [] OTHER -> "sum_build")
    /\ UNCHANGED <<files, log, crashed, events, pureVars>>

\* parsePromptFile on the documents of MainDocs, computed once.
ParsedMainDocs == [d \in MainDocs |-> parsePromptFile(d)]

ParseContent(content) ==
    IF content \in MainDocs THEN ParsedMainDocs[content]
    ELSE parsePromptFile(content)

\* prompt, err := parsePromptFile(messagePath)
HumParse(p) ==
    /\ At(p, "hum_parse")
    /\ LET messagePath == Join(loc[p].path, promptFn)
           pr == IF Exists(files, messagePath)
                 THEN ParseContent(files[messagePath])
                 ELSE PromptErr("no such file")
       IN  IF pr.err # ""
           THEN /\ Logs(p, <<LogEntry("Error parsing prompt file", pr.err)>>)
                /\ loc' = [loc EXCEPT ![p].outcome = "parse error"]
                /\ Goto(p, "return")
           ELSE /\ loc' = [loc EXCEPT ![p].prompt = pr]
                /\ Goto(p, "hum_build")
                /\ UNCHANGED log
    /\ UNCHANGED <<files, mutex, crashed, events, pureVars>>

\* The request of handleUserMessage: context messages, system message,
\* attachments, user message.
UserMessageFirst(fs, path, pr, inFilesContent) ==
    <<[Role |-> "user",
       Content |-> UserContent(pr.PromptText, inFilesContent)]>>
    \o buildContextMessages(fs, path, watchPath)
    \o (IF pr.SysMsg # <<>>
        THEN <<[Role |-> "system", Content |-> pr.SysMsg]>> ELSE <<>>)
RequestMessages(fs, path, pr, inFilesContent) ==
    buildContextMessages(fs, path, watchPath)
    \o (IF pr.SysMsg # <<>>
        THEN <<[Role |-> "system", Content |-> pr.SysMsg]>> ELSE <<>>)
    \o <<[Role |-> "user",
          Content |-> UserContent(pr.PromptText, inFilesContent)]>>

HumBuild(p) ==
    /\ At(p, "hum_build")
    /\ LET r == readInFilesContent(files, loc[p].prompt.InFiles, watchPath) IN
       IF r.err # ""
       THEN /\ Logs(p, <<LogEntry("Error reading In files", r.err)>>)
            /\ loc' = [loc EXCEPT ![p].outcome = "attachment error"]
            /\ Goto(p, "return")
       ELSE /\ loc' = [loc EXCEPT ![p].messages =
                          RequestMessages(files, loc[p].path, loc[p].prompt,
                                          r.content)]
            /\ Goto(p, "hum_llm")
            /\ UNCHANGED log
    /\ UNCHANGED <<files, mutex, crashed, events, pureVars>>

\* "if err != nil { log...; return }" after getLLMResponse.
LLMErrorContinue == "hum_save_open"
AfterLLMError == "return"

\* []byte(response): the reply is saved as it came.
TruncatedBytes(response) == SubSeq(response, 1, Len(response) - 1)
ResponseBytes(response) == response

\* After a reply the handler saves it as response.txt, then extracts.
ExtractUnsaved == "plr_parse"
AfterLLMReply == "hum_save_open"

\* response, err := getLLMResponse(contextMessages, client)
HumLLM(p) ==
    /\ At(p, "hum_llm")
    /\ \/ \E r \in ClientReplies :
             /\ loc' = [loc EXCEPT ![p].response = r,
                                   ![p].calls = loc[p].calls + 1]
             /\ Goto(p, AfterLLMReply)
             /\ UNCHANGED log
       \/ /\ loc' = [loc EXCEPT ![p].outcome = "backend error",
                                ![p].llmErr = TRUE,
                                ![p].calls = loc[p].calls + 1]
          /\ Logs(p, <<LogEntry("Error getting LLM response", "")>>)
          /\ Goto(p, AfterLLMError)
    /\ UNCHANGED <<files, mutex, crashed, events, pureVars>>

\* ioutil.WriteFile(responsePath, ...): open with truncation ...
HumSaveOpen(p) ==
    /\ At(p, "hum_save_open")
    /\ LET responsePath == Join(loc[p].path, responseFn) IN
       \/ /\ files' = Truncate(files, responsePath)
          /\ Goto(p, "hum_save_write")
          /\ UNCHANGED log
       \/ /\ Logs(p, <<LogEntry("Error writing LLM response", ""),
                       LogEntry("LLM response written to", "")>>)
          /\ Goto(p, "plr_parse")
          /\ UNCHANGED files
    /\ UNCHANGED <<mutex, loc, crashed, events, pureVars>>

\* ... then write; an error is logged and processing goes on.
HumSaveWrite(p) ==
    /\ At(p, "hum_save_write")
    /\ LET responsePath == Join(loc[p].path, responseFn) IN
       \/ /\ files' = Put(files, responsePath, ResponseBytes(loc[p].response))
          /\ Logs(p, <<LogEntry("LLM response written to", "")>>)
       \/ /\ Logs(p, <<LogEntry("Error writing LLM response", ""),
                       LogEntry("LLM response written to", "")>>)
          /\ UNCHANGED files
    /\ Goto(p, "plr_parse")
    /\ UNCHANGED <<mutex, loc, crashed, events, pureVars>>

\* processLLMResponse: parse the reply, build outFileContents.
PlrParse(p) ==
    /\ At(p, "plr_parse")
    /\ LET root == XmlSections(loc[p].response) IN
       IF root.err # ""
       THEN /\ Logs(p, <<LogEntry("Error processing LLM response", root.err)>>)
            /\ loc' = [loc EXCEPT ![p].outcome = "xml error"]
            /\ Goto(p, "return")
       ELSE /\ loc' = [loc EXCEPT ![p].contents = OutFileContents(root.OutFiles),
                                  ![p].i = 1]
            /\ Goto(p, "plr_loop")
            /\ UNCHANGED log
    /\ UNCHANGED <<files, mutex, crashed, events, pureVars>>

\* for _, filename := range outFiles: look the name up.
PlrLoop(p) ==
    /\ At(p, "plr_loop")
    /\ LET outFiles == loc[p].prompt.OutFiles IN
       IF loc[p].i > Len(outFiles)
       THEN /\ Goto(p, "plr_warn")
            /\ UNCHANGED <<loc, log>>
       ELSE LET filename == outFiles[loc[p].i] IN
            IF filename \notin DOMAIN loc[p].contents
            THEN /\ Logs(p, <<LogEntry("Warning: not found in LLM response", filename)>>)
                 /\ loc' = [loc EXCEPT ![p].i = loc[p].i + 1]
                 /\ UNCHANGED pc
            ELSE /\ Goto(p, "plr_tmp_open")
                 /\ UNCHANGED <<loc, log>>
    /\ UNCHANGED <<files, mutex, crashed, events, pureVars>>

\* tmpPath := filepath.Join(parentDir, filename+".tmp")
FinalPath(filename) == Join(Dir(watchPath), filename)
DirectPath(filename) == FinalPath(filename)
TmpPath(filename) == Join(Dir(watchPath), filename \o ".tmp")
CurrentOut(p) == loc[p].prompt.OutFiles[loc[p].i]

\* ioutil.WriteFile(tmpPath, ...); Ck(err): open with truncation ...
PlrTmpOpen(p) ==
    /\ At(p, "plr_tmp_open")
    /\ \/ /\ files' = Truncate(files, TmpPath(CurrentOut(p)))
          /\ Goto(p, "plr_tmp_write")
       \/ /\ Goto(p, "panic")
          /\ UNCHANGED files
    /\ UNCHANGED <<mutex, loc, log, crashed, events, pureVars>>

\* ... then write; Ck panics on an error.
PlrTmpWrite(p) ==
    /\ At(p, "plr_tmp_write")
    /\ \/ /\ files' = Put(files, TmpPath(CurrentOut(p)),
                          loc[p].contents[CurrentOut(p)])
          /\ Goto(p, "plr_rename")
       \/ /\ Goto(p, "panic")
          /\ UNCHANGED files
    /\ UNCHANGED <<mutex, loc, log, crashed, events, pureVars>>

\* os.Rename(tmpPath, final); Ck(err)
PlrRename(p) ==
    /\ At(p, "plr_rename")
    /\ \/ /\ files' = Rename(files, TmpPath(CurrentOut(p)), FinalPath(CurrentOut(p)))
          /\ Logs(p, <<LogEntry("Updated file written to", CurrentOut(p))>>)
          /\ loc' = [loc EXCEPT ![p].i = loc[p].i + 1]
          /\ Goto(p, "plr_loop")
       \/ /\ Goto(p, "panic")
          /\ UNCHANGED <<files, loc, log>>
    /\ UNCHANGED <<mutex, crashed, events, pureVars>>

Range(f) == { f[x] : x \in DOMAIN f }

\* The names in outFileContents that are not in outFilesSet, one warning
\* each, in the order the map iteration yields them.
PlrWarn(p) ==
    /\ At(p, "plr_warn")
    /\ LET todo == ((DOMAIN loc[p].contents) \ Range(loc[p].prompt.OutFiles))
                   \ loc[p].warned
       IN  IF todo = {}
           THEN /\ loc' = [loc EXCEPT ![p].outcome = "ok"]
                /\ Goto(p, "return")
                /\ UNCHANGED log
           ELSE \E filename \in todo :
                /\ Logs(p, <<LogEntry("Warning: not specified in Out", filename)>>)
                /\ loc' = [loc EXCEPT ![p].warned = loc[p].warned \cup {filename}]
                /\ UNCHANGED pc
    /\ UNCHANGED <<files, mutex, crashed, events, pureVars>>

\* defer mutex.Unlock() on a normal return; the locals go out of scope.
Return(p) ==
    /\ At(p, "return")
    /\ mutex' = NoHolder
    /\ Goto(p, "idle")
    /\ loc' = [loc EXCEPT ![p] = NoLoc]
    /\ log' = [log EXCEPT ![p] = <<>>]
    /\ UNCHANGED <<files, crashed, events, pureVars>>

\* defer mutex.Unlock() while the panic raised by Ck unwinds.
PanicUnlock(p) ==
    /\ At(p, "panic")
    /\ mutex' = NoHolder
    /\ Goto(p, "panicked")
    /\ loc' = [loc EXCEPT ![p] = NoLoc]
    /\ log' = [log EXCEPT ![p] = <<>>]
    /\ UNCHANGED <<files, crashed, events, pureVars>>

\* Nothing recovers the panic: the Go runtime terminates the program.
Crash ==
    /\ ~crashed
    /\ \E p \in Procs : pc[p] = "panicked"
    /\ crashed' = TRUE
    /\ UNCHANGED <<files, mutex, pc, loc, log, events, pureVars>>

\* handlePDFAttachment: text, err := extractTextFunc(pdfPath)
PdfExtract(p) ==
    /\ At(p, "pdf_extract")
    /\ \/ /\ loc' = [loc EXCEPT ![p].response = PdfText]
          /\ Goto(p, "pdf_open")
          /\ UNCHANGED log
       \/ /\ Logs(p, <<LogEntry("Error extracting text from PDF", "")>>)
          /\ loc' = [loc EXCEPT ![p].outcome = "extract error"]
          /\ Goto(p, "return")
    /\ UNCHANGED <<files, mutex, crashed, events, pureVars>>

TxtPath(path) == Join(Dir(path), path[Len(path)] \o ".txt")

PdfOpen(p) ==
    /\ At(p, "pdf_open")
    /\ \/ /\ files' = Truncate(files, TxtPath(loc[p].path))
          /\ Goto(p, "pdf_write")
          /\ UNCHANGED log
       \/ /\ Logs(p, <<LogEntry("Error writing extracted text", "")>>)
          /\ Goto(p, "return")
          /\ UNCHANGED files
    /\ UNCHANGED <<mutex, loc, crashed, events, pureVars>>

PdfWrite(p) ==
    /\ At(p, "pdf_write")
    /\ \/ /\ files' = Put(files, TxtPath(loc[p].path), loc[p].response)
          /\ Logs(p, <<LogEntry("Extracted text from PDF saved to", "")>>)
       \/ /\ Logs(p, <<LogEntry("Error writing extracted text", "")>>)
          /\ UNCHANGED files
    /\ Goto(p, "return")
    /\ UNCHANGED <<mutex, loc, crashed, events, pureVars>>

\* summarizePath: messages := buildContextMessages(path, watchPath)
SumBuild(p) ==
    /\ At(p, "sum_build")
    /\ loc' = [loc EXCEPT ![p].messages =
                  buildContextMessages(files, loc[p].path, watchPath)]
    /\ Goto(p, "sum_llm")
    /\ UNCHANGED <<files, mutex, log, crashed, events, pureVars>>

\* summary, err := getSummary(text, client)
SumLLM(p) ==
    /\ At(p, "sum_llm")
    /\ \/ /\ loc' = [loc EXCEPT ![p].response = SummaryReply,
                                ![p].calls = loc[p].calls + 1]
          /\ Goto(p, "sum_open")
          /\ UNCHANGED log
       \/ /\ loc' = [loc EXCEPT ![p].outcome = "backend error",
                                ![p].llmErr = TRUE,
                                ![p].calls = loc[p].calls + 1]
          /\ Logs(p, <<LogEntry("Error summarizing path", "")>>)
          /\ Goto(p, "return")
    /\ UNCHANGED <<files, mutex, crashed, events, pureVars>>

SumOpen(p) ==
    /\ At(p, "sum_open")
    /\ \/ /\ files' = Truncate(files, Join(loc[p].path, "summary.txt"))
          /\ Goto(p, "sum_write")
          /\ UNCHANGED log
       \/ /\ Logs(p, <<LogEntry("Error writing summary", "")>>)
          /\ Goto(p, "return")
          /\ UNCHANGED files
    /\ UNCHANGED <<mutex, loc, crashed, events, pureVars>>

SumWrite(p) ==
    /\ At(p, "sum_write")
    /\ \/ /\ files' = Put(files, Join(loc[p].path, "summary.txt"), loc[p].response)
          /\ Logs(p, <<LogEntry("Summary written to", "")>>)
       \/ /\ Logs(p, <<LogEntry("Error writing summary", "")>>)
          /\ UNCHANGED files
    /\ Goto(p, "return")
    /\ UNCHANGED <<mutex, loc, crashed, events, pureVars>>

Step(p) ==
    \/ Event(p) \/ Lock(p)
    \/ HumParse(p) \/ HumBuild(p) \/ HumLLM(p)
    \/ HumSaveOpen(p) \/ HumSaveWrite(p)
    \/ PlrParse(p) \/ PlrLoop(p)
    \/ PlrTmpOpen(p) \/ PlrTmpWrite(p) \/ PlrRename(p) \/ PlrWarn(p)
    \/ Return(p) \/ PanicUnlock(p)
    \/ PdfExtract(p) \/ PdfOpen(p) \/ PdfWrite(p)
    \/ SumBuild(p) \/ SumLLM(p) \/ SumOpen(p) \/ SumWrite(p)

Next == (\E p \in Procs : Step(p)) \/ Crash

Spec == Init /\ [][Next]_vars

\* Every goroutine that can run does run, a goroutine blocked in Lock gets
\* the mutex once it is free (sync.Mutex hands over to starving waiters),
\* and a panicking program does terminate.
\* The liveness properties are checked for the well-formed prompt with all
\* of its files in place.
FairInit ==
    /\ Init
    /\ files = Merge(Merge(Put(EmptyMap, Join(watchPath, promptFn), DocAB),
                           Put(EmptyMap, <<"i">>, <<"alpha">>)),
                     Put(EmptyMap, <<"a">>, <<"old">>))

FairSpec ==
    /\ FairInit
    /\ [][Next]_vars
    /\ \A p \in Procs : WF_vars(Step(p)) /\ SF_vars(Lock(p))
    /\ WF_vars(Crash)

\* ------------------------------------------------------------------------
\* SpecParse: parsePromptFile applied to bounded documents
\* ------------------------------------------------------------------------
\* Lines a document is made of.
HeaderLines ==
    { <<"In", ":", " ", "a">>,
      <<"In", ":">>,
      <<"Out", ":", " ", "a", " ", "b">>,
      <<"Sysmsg", ":", "s">>,
      <<"X", ":", "b">>,
      <<" ", "b", " ">>,
      <<"\t", "a.tmp">>,
      <<"a">> }

BodyLines == { <<"body">> }

RECURSIVE JoinLines(_)
JoinLines(ls) ==
    IF ls = <<>> THEN <<>>
    ELSE IF Len(ls) = 1 THEN ls[1]
    ELSE ls[1] \o <<NL>> \o JoinLines(Tail(ls))

LineSeqs == UNION { [1..n -> HeaderLines] : n \in 0..MaxLines }

\* A document: header lines, then either a blank line and a body, or
\* nothing (no separator).
Docs ==
    { JoinLines(ls \o <<<<>>>> \o <<b>>) : ls \in LineSeqs \ {<<>>}, b \in BodyLines }
    \cup { <<NL, NL>> \o b : b \in BodyLines }
    \cup { JoinLines(ls) : ls \in LineSeqs }

ParseInit ==
    /\ doc \in Docs
    /\ prompt = NoPrompt
    /\ reply = <<>>
    /\ extracted = NotParsed
    /\ ctx = NoCtx
    /\ att = NoAtt
    /\ registry = NoRegistry
    /\ watch = NoWatch
    /\ MainQuiet

Parse ==
    /\ prompt.err = "none"
    /\ prompt' \in ParseResults(doc)
    /\ UNCHANGED <<doc, reply, extracted, ctx, att, registry, watch, mainVars>>

\* The prompt is not cached: the next event parses the file again.
Discard ==
    /\ prompt.err # "none"
    /\ prompt' = NoPrompt
    /\ UNCHANGED <<doc, reply, extracted, ctx, att, registry, watch, mainVars>>

ParseNext == Parse \/ Discard

SpecParse == ParseInit /\ [][ParseNext]_vars

\* ------------------------------------------------------------------------
\* SpecExtract: the XML parse applied to bounded replies
\* ------------------------------------------------------------------------
\* The symbols of a reply: section tags, text, and a bare "<" in the text.
ReplySymbols == {OpenTag("a"), OpenTag("inner"), CloseTag, "x", "<"}

Replies == UNION { [1..n -> ReplySymbols] : n \in 0..MaxReply }

ExtractInit ==
    /\ reply \in Replies
    /\ extracted = NotParsed
    /\ doc = <<>>
    /\ prompt = NoPrompt
    /\ ctx = NoCtx
    /\ att = NoAtt
    /\ registry = NoRegistry
    /\ watch = NoWatch
    /\ MainQuiet

Extract ==
    /\ extracted.err = "none"
    /\ extracted' = XmlSections(reply)
    /\ UNCHANGED <<doc, prompt, reply, ctx, att, registry, watch, mainVars>>

\* The sections are not kept: the next reply is parsed afresh.
Forget ==
    /\ extracted.err # "none"
    /\ extracted' = NotParsed
    /\ UNCHANGED <<doc, prompt, reply, ctx, att, registry, watch, mainVars>>

ExtractNext == Extract \/ Forget

SpecExtract == ExtractInit /\ [][ExtractNext]_vars

\* ------------------------------------------------------------------------
\* Properties of the XML parse (SpecExtract)
\* ------------------------------------------------------------------------
CountIn(t, lo, hi, S) == Cardinality({ k \in lo..hi : t[k] \in S })

\* Nesting depth just before position k: start tags minus end tags so far.
DepthBefore(t, k) ==
    CountIn(t, 1, k - 1, OpenTags) - CountIn(t, 1, k - 1, {CloseTag})

TopOpens(t) == { k \in 1..Len(t) : t[k] \in OpenTags /\ DepthBefore(t, k) = 0 }

\* The end tag that brings the depth back to what it was before k.
OwnClose(t, k) ==
    CHOOSE j \in (k + 1)..Len(t) :
        /\ t[j] = CloseTag
        /\ DepthBefore(t, j + 1) = DepthBefore(t, k)
        /\ \A m \in (k + 1)..(j - 1) :
              ~(t[m] = CloseTag /\ DepthBefore(t, m + 1) = DepthBefore(t, k))

NthTopOpen(t, n) ==
    CHOOSE k \in TopOpens(t) : Cardinality({ m \in TopOpens(t) : m < k }) = n - 1

NestedReply ==
    <<OpenTag("a"), "x", OpenTag("inner"), "x", CloseTag, "x", CloseTag>>

IsContinuation(line) == HasPrefix(line, " ") \/ HasPrefix(line, "\t")

IsHeaderFor(line, key) ==
    /\ ~IsContinuation(line)
    /\ Index(line, ":") > 0
    /\ TrimSpace(SubSeq(line, 1, Index(line, ":") - 1)) = key

RECURSIVE FoldFrom(_, _, _)
FoldFrom(lines, i, acc) ==
    IF i > Len(lines) \/ ~IsContinuation(lines[i]) THEN acc
    ELSE FoldFrom(lines, i + 1, acc \o <<" ">> \o TrimSpace(lines[i]))

\* The value the format gives to header key in text d: the initial value of
\* its last header line followed by that line's continuation lines.
FoldedValue(d, key) ==
    LET lines == Split(SplitN2(d)[1])
        idx   == { i \in 1..Len(lines) : IsHeaderFor(lines[i], key) }
    IN  IF idx = {} THEN <<>>
        ELSE LET i == CHOOSE x \in idx : \A y \in idx : y <= x
                 l == lines[i]
             IN  FoldFrom(lines, i + 1,
                          TrimSpace(SubSeq(l, Index(l, ":") + 1, Len(l))))

\* C2: every header's value is its initial value followed by its
\* continuation lines, joined by single spaces, and In, Out and Sysmsg are
\* read from the folded values.
C2_ContinuationFolding ==
    prompt.err = "" =>
        /\ prompt.InFiles = StrEach(Fields(FoldedValue(doc, <<"In">>)))
        /\ prompt.OutFiles = StrEach(Fields(FoldedValue(doc, <<"Out">>)))
        /\ prompt.SysMsg = FoldedValue(doc, <<"Sysmsg">>)

\* ------------------------------------------------------------------------
\* Properties of the daemon (Spec, FairSpec)
\* ------------------------------------------------------------------------
FileState(fs, path) ==
    IF Exists(fs, path) THEN [exists |-> TRUE, data |-> fs[path]]
    ELSE [exists |-> FALSE, data |-> <<>>]

HasLog(p, kind) == \E k \in 1..Len(log[p]) : log[p][k].kind = kind
LogCount(p, kind, name) ==
    Cardinality({ k \in 1..Len(log[p]) : log[p][k] = LogEntry(kind, name) })

InHum(p) == loc[p].op = "handleUserMessage"
ResponsePath(p) == Join(loc[p].path, responseFn)
PromptPath(p) == Join(loc[p].path, promptFn)
WritePhase == {"plr_tmp_open", "plr_tmp_write", "plr_rename"}

\* processLLMResponse has parsed the reply and has left its loops, by
\* returning nil or by a panic.
EndOfExtraction(p) ==
    /\ InHum(p)
    /\ \/ pc[p] = "return" /\ loc[p].outcome = "ok"
       \/ pc[p] = "panic"

\* C3: while a declared output is being written, every step leaves its
\* final path as it was or puts the complete section content there.
C3_AtomicOutputWrite ==
    [][\A p \in Procs :
          pc[p] \in WritePhase =>
              LET f == FinalPath(CurrentOut(p)) IN
              \/ FileState(files', f) = FileState(files, f)
              \/ FileState(files', f) =
                    [exists |-> TRUE, data |-> loc[p].contents[CurrentOut(p)]]]_vars

C3_Witness ==
    \E p \in Procs :
        /\ pc[p] = "plr_rename"
        /\ CurrentOut(p) = "a"
        /\ FileState(files, <<"a">>) = [exists |-> TRUE, data |-> <<"old">>]
        /\ FileState(files, <<"a.tmp">>) = [exists |-> TRUE, data |-> <<"x">>]

\* C4: at the end of processLLMResponse every declared name without a
\* section has exactly one missing-output warning and an untouched file,
\* and every other declared name with a section holds that section.
C4_MissingOutputWarnings ==
    \A p \in Procs :
        EndOfExtraction(p) =>
            \A k \in 1..Len(loc[p].prompt.OutFiles) :
                LET n == loc[p].prompt.OutFiles[k] IN
                IF n \notin DOMAIN loc[p].contents
                THEN /\ LogCount(p, "Warning: not found in LLM response", n) = 1
                     /\ FileState(files, FinalPath(n)) = FileState(loc[p].start, FinalPath(n))
                ELSE \/ pc[p] = "panic" /\ k = loc[p].i
                     \/ FileState(files, FinalPath(n)) =
                           [exists |-> TRUE, data |-> loc[p].contents[n]]

\* C5: at the end of processLLMResponse every section that was not
\* declared has a warning and no file, and a declared path holds what it
\* held before or the section of exactly that name.
C5_UndeclaredSections ==
    \A p \in Procs :
        EndOfExtraction(p) =>
            /\ \A n \in (DOMAIN loc[p].contents) \ Range(loc[p].prompt.OutFiles) :
                  /\ LogCount(p, "Warning: not specified in Out", n) = 1
                  /\ FileState(files, FinalPath(n)) = FileState(loc[p].start, FinalPath(n))
            /\ \A n \in Range(loc[p].prompt.OutFiles) :
                  \/ FileState(files, FinalPath(n)) = FileState(loc[p].start, FinalPath(n))
                  \/ /\ n \in DOMAIN loc[p].contents
                     /\ FileState(files, FinalPath(n)) =
                           [exists |-> TRUE, data |-> loc[p].contents[n]]

\* The run of p started from a prompt that does not parse or that names an
\* input file that cannot be read.
BadPrompt(p) ==
    \/ ~Exists(loc[p].start, PromptPath(p))
    \/ parsePromptFile(loc[p].start[PromptPath(p)]).err # ""
BadAttachment(p) ==
    /\ ~BadPrompt(p)
    /\ \E f \in Range(parsePromptFile(loc[p].start[PromptPath(p)]).InFiles) :
          ~Exists(loc[p].start, FinalPath(f))

\* C6: a run whose prompt does not parse, or one of whose input files is
\* unreadable, gets no further than the parse resp. the attachment step,
\* returns with the error logged, has not called the model client and has
\* written no file.
C6_AbortBeforeCallOrWrite ==
    \A p \in Procs :
        (InHum(p) /\ pc[p] # "lock") =>
            /\ BadPrompt(p) =>
                  /\ pc[p] \in {"hum_parse", "return"}
                  /\ pc[p] = "return" => HasLog(p, "Error parsing prompt file")
                  /\ loc[p].calls = 0
                  /\ files = loc[p].start
            /\ BadAttachment(p) =>
                  /\ pc[p] \in {"hum_parse", "hum_build", "return"}
                  /\ pc[p] = "return" => HasLog(p, "Error reading In files")
                  /\ loc[p].calls = 0
                  /\ files = loc[p].start

C6_Witness ==
    \E p \in Procs :
        /\ InHum(p)
        /\ pc[p] = "return"
        /\ BadAttachment(p)
        /\ loc[p].outcome = "attachment error"
        /\ Exists(files, PromptPath(p))

\* C7: after a backend error the run returns, the error is logged and no
\* file (response.txt and the declared outputs included) has changed.
C7_BackendFailureWritesNothing ==
    \A p \in Procs :
        (InHum(p) /\ loc[p].llmErr) =>
            /\ pc[p] = "return"
            /\ HasLog(p, "Error getting LLM response")
            /\ files = loc[p].start

C7_Witness ==
    \E p \in Procs :
        /\ InHum(p)
        /\ loc[p].llmErr
        /\ pc[p] = "return"
        /\ FileState(files, ResponsePath(p)) = [exists |-> TRUE, data |-> RepA]

\* The model call of this run has succeeded and the run is past saving the
\* reply.
AfterSave(p) ==
    /\ InHum(p)
    /\ loc[p].calls = 1
    /\ ~loc[p].llmErr
    /\ pc[p] \in {"plr_parse", "plr_loop", "plr_warn", "return", "panic"} \cup WritePhase

InBody(p) == pc[p] \notin {"idle", "lock", "panicked"}

\* C9: at most one operation is between Lock and Unlock, it is the holder
\* of the mutex, and only the holder takes a step of an operation's body
\* (reads, model calls, writes).
C9_MutualExclusion ==
    /\ [](\A p, q \in Procs : (InBody(p) /\ InBody(q)) => p = q)
    /\ [](\A p \in Procs : InBody(p) <=> mutex = p)
    /\ [][\A p \in Procs :
            (InBody(p) /\ (pc'[p] # pc[p] \/ loc'[p] # loc[p] \/ files' # files))
                => \A q \in Procs \ {p} : ~InBody(q) /\ pc[q] \in {"idle", "lock", "panicked"}]_vars

C9_Witness ==
    \E p, q \in Procs :
        /\ p # q
        /\ pc[p] = "hum_llm"
        /\ pc[q] = "lock"
        /\ loc[q].op = "summarizePath"

\* C10: a goroutine that has left its operation does not hold the mutex,
\* and a goroutine waiting in Lock eventually gets the mutex.
C10_LockReleased ==
    /\ [](\A p \in Procs : pc[p] \in {"idle", "panicked"} => mutex # p)
    /\ \A q \in Procs : (pc[q] = "lock") ~> (pc[q] # "lock")

\* The log entry handleUserMessage writes for each way of failing.
FailureLog(outcome) ==
    CASE outcome = "parse error" -> "Error parsing prompt file"
      [] outcome = "attachment error" -> "Error reading In files"
      [] outcome = "backend error" -> "Error getting LLM response"
      [] outcome = "xml error" -> "Error processing LLM response"
      [] OTHER -> ""

\* C11: no run of handleUserMessage panics and the program is never
\* terminated; a run that fails has returned with the failure in the log.
C11_NoFailureCrashesWorker ==
    /\ ~crashed
    /\ \A p \in Procs :
          /\ pc[p] \notin {"panic", "panicked"}
          /\ (InHum(p) /\ pc[p] = "return" /\ loc[p].outcome # "ok")
                => HasLog(p, FailureLog(loc[p].outcome))

\* C12: when the write or the rename of one declared output has failed,
\* every later declared output with a section is written all the same.
C12_SiblingWritesContinue ==
    \A p \in Procs :
        (InHum(p) /\ pc[p] = "panic") =>
            \A k \in (loc[p].i + 1)..Len(loc[p].prompt.OutFiles) :
                LET n == loc[p].prompt.OutFiles[k] IN
                n \in DOMAIN loc[p].contents =>
                    FileState(files, FinalPath(n)) =
                        [exists |-> TRUE, data |-> loc[p].contents[n]]

\* Log entries that a run also writes when the reply does hold sections.
OrdinaryLogs ==
    {"LLM response written to", "Error writing LLM response",
     "Warning: not found in LLM response", "Updated file written to",
     "Warning: not specified in Out"}

\* C13: a run with declared outputs whose reply holds no section at all
\* does not end as a success that logged per-name warnings only: it ends
\* with an error or with a log entry of its own kind.
C13_NoSectionsReported ==
    \A p \in Procs :
        (/\ InHum(p)
         /\ pc[p] = "return"
         /\ loc[p].calls = 1 /\ ~loc[p].llmErr
         /\ Len(loc[p].prompt.OutFiles) > 0
         /\ XmlSections(loc[p].response).err = ""
         /\ XmlSections(loc[p].response).OutFiles = <<>>)
        => \/ loc[p].outcome # "ok"
           \/ \E k \in 1..Len(log[p]) : log[p][k].kind \notin OrdinaryLogs

\* ------------------------------------------------------------------------
\* More properties of parsePromptFile (SpecParse)
\* ------------------------------------------------------------------------
HasSeparator(d) == \E i \in 1..(Len(d) - 1) : d[i] = NL /\ d[i + 1] = NL

FirstSeparator(d) ==
    CHOOSE i \in 1..(Len(d) - 1) :
        /\ d[i] = NL /\ d[i + 1] = NL
        /\ \A j \in 1..(i - 1) : ~(d[j] = NL /\ d[j + 1] = NL)

\* The lines of the header region: the text before the first blank line.
HeaderRegion(d) == Split(SubSeq(d, 1, FirstSeparator(d) - 1))

\* Some line of the header region is not a continuation line and has no
\* colon.
ColonlessHeader(d) ==
    \E i \in 1..Len(HeaderRegion(d)) :
        /\ ~IsContinuation(HeaderRegion(d)[i])
        /\ \A k \in 1..Len(HeaderRegion(d)[i]) : HeaderRegion(d)[i][k] # ":"

IsBareName(line) ==
    /\ line # <<>>
    /\ ~IsContinuation(line)
    /\ \A k \in 1..Len(line) : line[k] # ":" /\ ~IsSpace(line[k])

\* The header (In, Out, ...) whose list line i belongs to: the key of the
\* nearest header line above it, <<>> when there is none.
SectionOf(lines, i) ==
    LET above == { j \in 1..(i - 1) : ~IsContinuation(lines[j]) /\ Index(lines[j], ":") > 0 }
    IN  IF above = {} THEN <<>>
        ELSE LET j == CHOOSE x \in above : \A y \in above : y <= x
             IN  TrimSpace(SubSeq(lines[j], 1, Index(lines[j], ":") - 1))

\* A document whose In and Out headers are followed by file names on lines
\* of their own.
IsListing(d) ==
    /\ HasSeparator(d)
    /\ LET lines == HeaderRegion(d) IN
       /\ \E i \in 1..Len(lines) : IsBareName(lines[i])
       /\ \A i \in 1..Len(lines) :
             \/ IsBareName(lines[i]) /\ SectionOf(lines, i) \in {<<"In">>, <<"Out">>}
             \/ \E key \in {<<"In">>, <<"Out">>, <<"Sysmsg">>} : IsHeaderFor(lines[i], key)

\* The names listed under key, in order.
ListedNames(d, key) ==
    LET lines == HeaderRegion(d)
        own(i) == IsBareName(lines[i]) /\ SectionOf(lines, i) = key
    IN  StrEach(SelectSeq([i \in 1..Len(lines) |-> IF own(i) THEN lines[i] ELSE <<>>],
                          LAMBDA l : l # <<>>))

\* C19: a document that lists the file names of In and Out on lines of
\* their own parses without error, InFiles and OutFiles hold the names on
\* the header line followed by the listed names, and the body is the
\* prompt text.
C19_ListedFilenamesAccepted ==
    (prompt.err # "none" /\ IsListing(doc)) =>
        /\ prompt.err = ""
        /\ prompt.InFiles = StrEach(Fields(FoldedValue(doc, <<"In">>)))
                               \o ListedNames(doc, <<"In">>)
        /\ prompt.OutFiles = StrEach(Fields(FoldedValue(doc, <<"Out">>)))
                               \o ListedNames(doc, <<"Out">>)
        /\ prompt.PromptText = SubSeq(doc, FirstSeparator(doc) + 2, Len(doc))

\* ------------------------------------------------------------------------
\* SpecContext: buildContextMessages applied to bounded trees
\* ------------------------------------------------------------------------
DirNames == {"w", "n"}

\* Node paths as handleUserMessage gets them: filepath.Dir(event.Name), a
\* cleaned path of at most MaxDepth components.
NodePaths == UNION { [1..n -> DirNames] : n \in 0..MaxDepth }

\* The watch path is the value of the --path flag as the user typed it:
\* "w", "w/n", or the same with a leading "./".
WatchPaths == { <<"w">>, <<"w", "n">>, <<".", "w">>, <<".", "w", "n">> }

Prefixes(path) == { SubSeq(path, 1, k) : k \in 0..Len(path) }

\* prompt.txt and response.txt of the directories on the way to path.
Artifacts(path) ==
    { Join(d, fn) : d \in Prefixes(path), fn \in {promptFn, responseFn} }

\* Every artifact has a text of its own.
ArtifactText(f) == f

ContextInit ==
    /\ \E p \in NodePaths, w \in WatchPaths :
          /\ ctx = [NoCtx EXCEPT !.path = p, !.watchPath = w]
          /\ files \in { [f \in S |-> ArtifactText(f)] : S \in SUBSET Artifacts(p) }
    /\ doc = <<>>
    /\ prompt = NoPrompt
    /\ reply = <<>>
    /\ extracted = NotParsed
    /\ att = NoAtt
    /\ registry = NoRegistry
    /\ watch = NoWatch
    /\ mutex = NoHolder
    /\ pc = [p \in Procs |-> "idle"]
    /\ loc = [p \in Procs |-> NoLoc]
    /\ log = [p \in Procs |-> <<>>]
    /\ crashed = FALSE
    /\ events = 0

BuildContext ==
    /\ ~ctx.built
    /\ ctx' = [ctx EXCEPT
                 !.paths = CollectPaths(ctx.path, ctx.watchPath, <<>>),
                 !.messages = buildContextMessages(files, ctx.path, ctx.watchPath),
                 !.built = TRUE]
    /\ UNCHANGED <<doc, prompt, reply, extracted, att, registry, watch, mainVars>>

\* The context is not cached: the next call builds it afresh.
DropContext ==
    /\ ctx.built
    /\ ctx' = [ctx EXCEPT !.paths = <<>>, !.messages = <<>>, !.built = FALSE]
    /\ UNCHANGED <<doc, prompt, reply, extracted, att, registry, watch, mainVars>>

ContextNext == BuildContext \/ DropContext

SpecContext == ContextInit /\ [][ContextNext]_vars

\* ------------------------------------------------------------------------
\* Properties of buildContextMessages (SpecContext)
\* ------------------------------------------------------------------------
\* The directory the watch path names.
TreeRoot == Clean(ctx.watchPath)

\* The node is the tree root or lies below it.
InsideTree ==
    /\ Len(TreeRoot) <= Len(ctx.path)
    /\ SubSeq(ctx.path, 1, Len(TreeRoot)) = TreeRoot

\* The k-th node of the chain from the tree root (k = 0) to the node.
ChainNode(k) == SubSeq(ctx.path, 1, Len(TreeRoot) + k)

SlotFile(x) == Join(ChainNode(x[1]), IF x[2] = 0 THEN promptFn ELSE responseFn)

\* The artifacts that exist on the chain: <<k, 0>> is the prompt.txt and
\* <<k, 1>> the response.txt of node k.
Slots ==
    { x \in (0..(Len(ctx.path) - Len(TreeRoot))) \X {0, 1} : Exists(files, SlotFile(x)) }

SlotRank(x) == 2 * x[1] + x[2]

SlotMessage(x) ==
    [Role |-> IF x[2] = 0 THEN "user" ELSE "assistant", Content |-> files[SlotFile(x)]]

\* C15: for a node of the tree the context holds one message for every
\* artifact that exists on the chain from the tree root to the node and
\* nothing else, ordered root to leaf and prompt before response.
C15_ContextOrder ==
    (ctx.built /\ InsideTree) =>
        /\ Len(ctx.messages) = Cardinality(Slots)
        /\ \A x \in Slots :
              LET n == 1 + Cardinality({ y \in Slots : SlotRank(y) < SlotRank(x) })
              IN  n <= Len(ctx.messages) /\ ctx.messages[n] = SlotMessage(x)

\* C16: the chain ends with the node, every entry is the parent of the
\* next, and the chain starts at the tree root, which is in it once, when
\* the node is inside the tree, and at the filesystem root otherwise.
C16_AncestorChain ==
    ctx.built =>
        /\ Len(ctx.paths) >= 1
        /\ ctx.paths[Len(ctx.paths)] = ctx.path
        /\ \A k \in 1..(Len(ctx.paths) - 1) : ctx.paths[k] = Dir(ctx.paths[k + 1])
        /\ InsideTree =>
              /\ ctx.paths[1] = TreeRoot
              /\ Cardinality({ k \in 1..Len(ctx.paths) : ctx.paths[k] = TreeRoot }) = 1
              /\ \A k \in 1..Len(ctx.paths) : Len(ctx.paths[k]) >= Len(TreeRoot)
        /\ ~InsideTree => ctx.paths[1] = <<>>

\* ------------------------------------------------------------------------
\* More properties of the XML parse (SpecExtract)
\* ------------------------------------------------------------------------
IsTag(tok) == tok \in OpenTags \cup {CloseTag}

\* The reply is one section and nothing else: a start tag, a content
\* without section tags, the end tag.
IsSingleSection(t) ==
    /\ Len(t) >= 2
    /\ t[1] \in OpenTags
    /\ t[Len(t)] = CloseTag
    /\ \A k \in 2..(Len(t) - 1) : ~IsTag(t[k])

\* C17: the section <OUT filename="f">X</OUT> is extracted as one section
\* f whose content, which is what gets written to the file f, is X.
C17_RoundTrip ==
    (extracted.err # "none" /\ IsSingleSection(reply)) =>
        /\ extracted.err = ""
        /\ OutFileContents(extracted.OutFiles) =
              Put(EmptyMap, FilenameAttr(reply[1]), SubSeq(reply, 2, Len(reply) - 1))

\* The reply without the text that stands outside of every section.
StripOuterText(t) ==
    LET keep == { k \in 1..Len(t) : IsTag(t[k]) \/ DepthBefore(t, k) > 0 }
        pos(n) == CHOOSE k \in keep : Cardinality({ m \in keep : m < k }) = n - 1
    IN  [n \in 1..Cardinality(keep) |-> t[pos(n)]]

\* C20: the text between the sections does not count: a reply gives the
\* sections that it gives with that text removed.
C20_OuterTextIgnored ==
    extracted.err # "none" => extracted = XmlSections(StripOuterText(reply))

\* ------------------------------------------------------------------------
\* More properties of the daemon (Spec)
\* ------------------------------------------------------------------------
\* Every section of the reply has its content on lines of its own: a line
\* break after the start tag and one before the end tag.
OnOwnLines(response) ==
    LET r == XmlSections(response) IN
    /\ r.err = ""
    /\ Len(r.OutFiles) > 0
    /\ \A k \in 1..Len(r.OutFiles) :
          LET c == r.OutFiles[k].Content IN
          Len(c) >= 2 /\ c[1] = NL /\ c[Len(c)] = NL

\* The content without the line break after the start tag and the one
\* before the end tag.
InnerLines(c) == SubSeq(c, 2, Len(c) - 1)

\* C18: a reply whose sections have their content on lines of their own
\* is processed without error, and a run that gets to the end has written,
\* for every declared name with a section, the content text alone.
C18_ContentOnOwnLines ==
    \A p \in Procs :
        (/\ InHum(p)
         /\ loc[p].calls = 1 /\ ~loc[p].llmErr
         /\ pc[p] = "return"
         /\ OnOwnLines(loc[p].response))
        => /\ loc[p].outcome = "ok"
           /\ \A k \in 1..Len(loc[p].prompt.OutFiles) :
                 LET n == loc[p].prompt.OutFiles[k] IN
                 n \in DOMAIN loc[p].contents =>
                     FileState(files, FinalPath(n)) =
                         [exists |-> TRUE, data |-> InnerLines(loc[p].contents[n])]

\* ------------------------------------------------------------------------
\* Repeated and unrecognised headers (SpecParse)
\* ------------------------------------------------------------------------
\* The number of header lines of the header region that carry key.
Occurrences(d, key) ==
    Cardinality({ i \in 1..Len(HeaderRegion(d)) : IsHeaderFor(HeaderRegion(d)[i], key) })

\* C22: a header that occurs on several header lines has the value of its
\* last occurrence, continuation lines of that occurrence included, and
\* nothing of the earlier occurrences.
C22_LastOccurrenceWins ==
    (prompt.err = "" /\ HasSeparator(doc)) =>
        /\ Occurrences(doc, <<"In">>) > 1
              => prompt.InFiles = StrEach(Fields(FoldedValue(doc, <<"In">>)))
        /\ Occurrences(doc, <<"Out">>) > 1
              => prompt.OutFiles = StrEach(Fields(FoldedValue(doc, <<"Out">>)))
        /\ Occurrences(doc, <<"Sysmsg">>) > 1
              => prompt.SysMsg = FoldedValue(doc, <<"Sysmsg">>)

\* No line of the header region is a header line for In, Out or Sysmsg,
\* and every line that is not a continuation line is a header line (the
\* header region may also be empty).
NoKnownHeader(d) ==
    /\ HasSeparator(d)
    /\ \/ FirstSeparator(d) = 1
       \/ \A i \in 1..Len(HeaderRegion(d)) :
             LET l == HeaderRegion(d)[i] IN
             \/ IsContinuation(l)
             \/ /\ Index(l, ":") > 0
                /\ \A key \in {<<"In">>, <<"Out">>, <<"Sysmsg">>} : ~IsHeaderFor(l, key)

\* C23: a document with a separator and without In, Out and Sysmsg parses
\* to empty lists, an empty system message and the text after the
\* separator as body.
C23_NoKnownHeaderIsValid ==
    (prompt.err # "none" /\ NoKnownHeader(doc)) =>
        prompt = [err |-> "", InFiles |-> <<>>, OutFiles |-> <<>>, SysMsg |-> <<>>,
                  PromptText |-> SubSeq(doc, FirstSeparator(doc) + 2, Len(doc))]

\* C24: a parse of the document gives the one Prompt that every parse of
\* that document gives, whatever the order in which the header map is
\* visited, and that Prompt is the one the handler works with.
C24_ParseDeterministic ==
    prompt.err # "none" =>
        /\ ParseResults(doc) = {prompt}
        /\ parsePromptFile(doc) = prompt

C24_Witness ==
    /\ doc = <<"In", ":", " ", "a", NL, "Out", ":", " ", "a", " ", "b", NL,
               "Sysmsg", ":", "s", NL, NL, "body">>
    /\ prompt = [err |-> "", InFiles |-> <<"a">>, OutFiles |-> <<"a", "b">>,
                 SysMsg |-> <<"s">>, PromptText |-> <<"body">>]

\* ------------------------------------------------------------------------
\* SpecAttach: readInFilesContent applied to bounded input lists
\* ------------------------------------------------------------------------
InNames == {"i", "j"}

\* The declared input lists: up to MaxIn names, repetitions allowed.
InLists == UNION { [1..n -> InNames] : n \in 0..MaxIn }

\* The directories a declared name could be looked up in: the parent of
\* the tree, the tree root, a node.
LookupDirs == { <<>>, <<"w">>, <<"w", "n">> }

AttachFiles == { Join(d, f) : d \in LookupDirs, f \in InNames }

\* Every file has a text of its own, of two symbols.
AttachText(f) == <<PathStr(f), "text">>

AttachInit ==
    /\ \E l \in InLists, w \in { <<"w">>, <<".", "w">>, <<"w", "n">> } :
          att = [NoAtt EXCEPT !.inFiles = l, !.watchPath = w]
    /\ files \in { [f \in S |-> AttachText(f)] : S \in SUBSET AttachFiles }
    /\ doc = <<>>
    /\ prompt = NoPrompt
    /\ reply = <<>>
    /\ extracted = NotParsed
    /\ ctx = NoCtx
    /\ registry = NoRegistry
    /\ watch = NoWatch
    /\ mutex = NoHolder
    /\ pc = [p \in Procs |-> "idle"]
    /\ loc = [p \in Procs |-> NoLoc]
    /\ log = [p \in Procs |-> <<>>]
    /\ crashed = FALSE
    /\ events = 0

ReadAttachments ==
    /\ ~att.read
    /\ LET r == readInFilesContent(files, att.inFiles, att.watchPath) IN
       att' = [att EXCEPT !.content = r.content, !.err = r.err, !.read = TRUE]
    /\ UNCHANGED <<doc, prompt, reply, extracted, ctx, registry, watch, mainVars>>

\* The attachments are read again on every call.
DropAttachments ==
    /\ att.read
    /\ att' = [att EXCEPT !.content = <<>>, !.err = "", !.read = FALSE]
    /\ UNCHANGED <<doc, prompt, reply, extracted, ctx, registry, watch, mainVars>>

AttachNext == ReadAttachments \/ DropAttachments

SpecAttach == AttachInit /\ [][AttachNext]_vars

\* ------------------------------------------------------------------------
\* Properties of readInFilesContent (SpecAttach)
\* ------------------------------------------------------------------------
\* Where the k-th declared name is looked up: in the parent directory of
\* the tree root.
DeclaredPath(k) ==
    LET root == Clean(att.watchPath)
    IN  SubSeq(root, 1, Len(root) - 1) \o <<att.inFiles[k]>>

Unreadable == { k \in 1..Len(att.inFiles) : DeclaredPath(k) \notin DOMAIN files }

\* The block of the k-th declared file.
Block(k) ==
    <<"<IN filename=\"" \o att.inFiles[k] \o "\">", NL>>
    \o files[DeclaredPath(k)] \o <<NL, "</IN>", NL>>

RECURSIVE Blocks(_)
Blocks(n) == IF n = 0 THEN <<>> ELSE Blocks(n - 1) \o Block(n)

C25_OutputsSurvive ==
    \A p \in Procs :
        (InHum(p) /\ pc[p] = "return" /\ loc[p].outcome = "ok") =>
            \A n \in Range(loc[p].prompt.OutFiles) :
                n \in DOMAIN loc[p].contents =>
                    FileState(files, FinalPath(n)) =
                        [exists |-> TRUE, data |-> loc[p].contents[n]]

\* The block of a declared input file in the user message.
InBlock(fs, name) ==
    <<"<IN filename=\"" \o name \o "\">", NL>> \o fs[<<name>>] \o <<NL, "</IN>", NL>>

RECURSIVE InBlocks(_, _)
InBlocks(fs, names) ==
    IF names = <<>> THEN <<>>
    ELSE InBlock(fs, Head(names)) \o InBlocks(fs, Tail(names))

\* The new user message: the body, then the attachment blocks if any.
NewUserMessage(p) ==
    [Role |-> "user",
     Content |-> loc[p].prompt.PromptText \o <<NL, NL>> \o
                 (IF loc[p].prompt.InFiles = <<>> THEN <<>>
                  ELSE <<"The following files are attached:", NL>>
                       \o InBlocks(files, loc[p].prompt.InFiles) \o <<NL>>)]

\* C26: the request is the context of the node (its prompt.txt as it is on
\* disk, then its response.txt if an earlier run left one), then the system
\* message if there is one, then the new user message, which is last.
C26_RequestSequence ==
    \A p \in Procs :
        (InHum(p) /\ pc[p] = "hum_llm") =>
            LET m == loc[p].messages
                hasResp == Exists(files, ResponsePath(p))
                hasSys == loc[p].prompt.SysMsg # <<>>
                nctx == 1 + (IF hasResp THEN 1 ELSE 0)
            IN  /\ Len(m) = nctx + (IF hasSys THEN 1 ELSE 0) + 1
                /\ m[1] = [Role |-> "user", Content |-> files[PromptPath(p)]]
                /\ hasResp => m[2] = [Role |-> "assistant", Content |-> files[ResponsePath(p)]]
                /\ hasSys => m[nctx + 1] = [Role |-> "system", Content |-> loc[p].prompt.SysMsg]
                /\ m[Len(m)] = NewUserMessage(p)
                /\ \A k \in 1..(Len(m) - 1) : hasSys \/ m[k].Role # "system"

C26_Witness ==
    \E p \in Procs :
        /\ InHum(p) /\ pc[p] = "hum_llm"
        /\ Len(loc[p].messages) = 4
        /\ loc[p].messages[1] = [Role |-> "user", Content |-> DocAB]
        /\ loc[p].messages[2] = [Role |-> "assistant", Content |-> RepA]
        /\ loc[p].messages[3] = [Role |-> "system", Content |-> <<"s">>]
        /\ loc[p].messages[4].Role = "user"

\* A step of the run of p touches a declared output: its final path or its
\* temporary file changes.
TouchesOutput(p) ==
    \E n \in Range(loc[p].prompt.OutFiles) :
        \/ FileState(files', FinalPath(n)) # FileState(files, FinalPath(n))
        \/ FileState(files', TmpPath(n)) # FileState(files, TmpPath(n))

ReplySaved(p) ==
    FileState(files, ResponsePath(p)) = [exists |-> TRUE, data |-> loc[p].response]

\* C27 as stated: a run touches a declared output only after the save step
\* of response.txt, and only when response.txt holds the reply.
C27_OutputsOnlyAfterSavedReply ==
    [][\A p \in Procs :
          (InHum(p) /\ TouchesOutput(p)) =>
              /\ HasLog(p, "LLM response written to")
              /\ ReplySaved(p)]_vars

\* C27 amended: a run touches a declared output only after the save step of
\* response.txt, and response.txt then holds the reply unless its write
\* failed, which the handler only logs.
C27_OutputsAfterSaveStep ==
    [][\A p \in Procs :
          (InHum(p) /\ TouchesOutput(p)) =>
              /\ HasLog(p, "LLM response written to")
              /\ (ReplySaved(p) \/ HasLog(p, "Error writing LLM response"))]_vars

C27_Witness ==
    \E p \in Procs :
        /\ InHum(p) /\ pc[p] = "return" /\ loc[p].outcome = "ok"
        /\ HasLog(p, "Error writing LLM response")
        /\ ~ReplySaved(p)
        /\ loc[p].response = RepA
        /\ FileState(loc[p].start, <<"a">>) # [exists |-> TRUE, data |-> <<"x">>]
        /\ FileState(files, <<"a">>) = [exists |-> TRUE, data |-> <<"x">>]

\* The top-level sections of the reply of p, the positions of those named n,
\* and the names that have several sections and are declared.
SectionsOf(p) == XmlSections(loc[p].response).OutFiles
PositionsOf(p, n) == { k \in 1..Len(SectionsOf(p)) : SectionsOf(p)[k].Filename = n }
LastContent(p, n) ==
    SectionsOf(p)[CHOOSE k \in PositionsOf(p, n) : \A j \in PositionsOf(p, n) : j <= k].Content
EarlierContents(p, n) ==
    { SectionsOf(p)[k].Content : k \in PositionsOf(p, n) } \ {LastContent(p, n)}
RepeatedDeclared(p) ==
    { n \in Range(loc[p].prompt.OutFiles) : Cardinality(PositionsOf(p, n)) > 1 }
Declarations(p, n) ==
    Cardinality({ k \in 1..Len(loc[p].prompt.OutFiles) : loc[p].prompt.OutFiles[k] = n })
Extracting(p) ==
    InHum(p) /\ pc[p] \in WritePhase \cup {"plr_loop", "plr_warn", "return", "panic"}
                /\ loc[p].outcome \in {"", "ok"} /\ loc[p].response # <<>>
                /\ XmlSections(loc[p].response).err = ""

\* C28: for a declared filename with several top-level sections, no step of
\* processLLMResponse puts the content of an earlier section into any file,
\* a change of the file's final path leaves the last section there, and a
\* run that ends without a failed write has written it once per declaration
\* and left the last section in it.
C28_LastSectionWritten ==
    /\ [][\A p \in Procs : Extracting(p) =>
            \A n \in RepeatedDeclared(p) :
                /\ \A q \in DOMAIN files' :
                      (q \notin DOMAIN files \/ files'[q] # files[q]) =>
                          files'[q] \notin EarlierContents(p, n)
                /\ FileState(files', FinalPath(n)) # FileState(files, FinalPath(n)) =>
                      FileState(files', FinalPath(n)) =
                          [exists |-> TRUE, data |-> LastContent(p, n)]]_vars
    /\ [](\A p \in Procs :
            (Extracting(p) /\ pc[p] = "return") =>
                \A n \in RepeatedDeclared(p) :
                    /\ LogCount(p, "Updated file written to", n) = Declarations(p, n)
                    /\ FileState(files, FinalPath(n)) =
                          [exists |-> TRUE, data |-> LastContent(p, n)])

C28_Witness ==
    \E p \in Procs :
        /\ Extracting(p) /\ pc[p] = "return"
        /\ loc[p].response = RepTwice
        /\ RepeatedDeclared(p) = {"a"}
        /\ EarlierContents(p, "a") = {<<"x">>}
        /\ FileState(loc[p].start, <<"a">>) # [exists |-> TRUE, data |-> <<"y">>]
        /\ FileState(files, <<"a">>) = [exists |-> TRUE, data |-> <<"y">>]

\* ------------------------------------------------------------------------
\* The provider registry of package llm (SpecRegistry)
\* ------------------------------------------------------------------------
ProviderNames == {"openai", "mock"}
AllModelNames == <<"mock-model", "gpt-4o", "gpt-4", "o1", "o1-mini">>
ModelNames == { AllModelNames[k] : k \in 1..MaxModels }

\* A provider instance: what its Models() returns.
Providers == SUBSET ModelNames

\* The orders in which ranging over a Go map or set can yield its keys.
KeyLists(S) ==
    { o \in [1..Cardinality(S) -> S] : \A a, b \in 1..Cardinality(S) : a # b => o[a] # o[b] }

\* RegisterProvider: providers[providerName] = provider, and for each model
\* of provider.Models(): modelToProvider[model] = providerName.
RegisterProvider(providerName, provider) ==
    /\ registry' =
          [registry EXCEPT
              !.providers = Put(registry.providers, providerName, provider),
              !.modelToProvider =
                  [m \in (DOMAIN registry.modelToProvider) \cup provider |->
                      IF m \in provider THEN providerName
                      ELSE registry.modelToProvider[m]],
              !.returned = NoCall]
    /\ UNCHANGED <<doc, prompt, reply, extracted, ctx, att, watch, mainVars>>

\* Models: the keys of modelToProvider, in map order.
Models ==
    /\ \E o \in KeyLists(DOMAIN registry.modelToProvider) :
          registry' = [registry EXCEPT
                          !.returned = [NoCall EXCEPT !.op = "Models", !.models = o]]
    /\ UNCHANGED <<doc, prompt, reply, extracted, ctx, att, watch, mainVars>>

\* provider.NewClient(modelName): the mock provider gives a client for any
\* name, the OpenAI provider an error for a name that is not its own.
ProviderNewClient(provider, modelName) ==
    IF modelName \in provider THEN {""} ELSE {"", "unsupported model"}

\* NewClient: look the model up, then its provider, then delegate.
NewClient(modelName) ==
    /\ LET call == [NoCall EXCEPT !.op = "NewClient", !.model = modelName] IN
       IF modelName \notin DOMAIN registry.modelToProvider
       THEN registry' = [registry EXCEPT
                            !.returned = [call EXCEPT !.err = "model not supported"]]
       ELSE LET providerName == registry.modelToProvider[modelName] IN
            IF providerName \notin DOMAIN registry.providers
            THEN registry' = [registry EXCEPT
                                 !.returned = [call EXCEPT !.err = "provider not found"]]
            ELSE LET provider == registry.providers[providerName] IN
                 \E e \in ProviderNewClient(provider, modelName) :
                    registry' = [registry EXCEPT
                                    !.returned = [call EXCEPT !.err = e,
                                                              !.delegate = provider,
                                                              !.delegated = TRUE]]
    /\ UNCHANGED <<doc, prompt, reply, extracted, ctx, att, watch, mainVars>>

RegistryInit ==
    /\ registry = NoRegistry
    /\ doc = <<>>
    /\ prompt = NoPrompt
    /\ reply = <<>>
    /\ extracted = NotParsed
    /\ ctx = NoCtx
    /\ att = NoAtt
    /\ watch = NoWatch
    /\ MainQuiet

RegistryNext ==
    \/ \E n \in ProviderNames, pr \in Providers : RegisterProvider(n, pr)
    \/ Models
    \/ \E m \in ModelNames : NewClient(m)

SpecRegistry == RegistryInit /\ [][RegistryNext]_vars

\* C29: every model name Models() returns maps to a registered provider;
\* a NewClient call that is delegated goes to a provider instance whose
\* Models() list held the model when it was registered; a NewClient call
\* for a model name never registered returns an error and leaves the
\* registry as it was.
C29_RegistryConsistent ==
    /\ [](\A k \in 1..Len(registry.returned.models) :
            /\ registry.returned.models[k] \in DOMAIN registry.modelToProvider
            /\ registry.modelToProvider[registry.returned.models[k]]
                  \in DOMAIN registry.providers)
    /\ [](\A m \in DOMAIN registry.modelToProvider :
            registry.modelToProvider[m] \in DOMAIN registry.providers)
    /\ []((registry.returned.op = "NewClient" /\ registry.returned.delegated) =>
            registry.returned.model \in registry.returned.delegate)
    /\ [][\A m \in ModelNames :
            (NewClient(m) /\ m \notin DOMAIN registry.modelToProvider) =>
                /\ registry'.returned.err # ""
                /\ ~registry'.returned.delegated
                /\ registry'.providers = registry.providers
                /\ registry'.modelToProvider = registry.modelToProvider]_vars

\* ------------------------------------------------------------------------
\* Watching the tree (SpecWatch, FairSpecWatch): startDaemon's event loop
\* ------------------------------------------------------------------------
SubdirNames == {"n", "m"}

\* The directories that can exist: the watch path and what lies below it,
\* paths of at most MaxDepth components.
TreeDirs ==
    { watchPath \o s : s \in UNION { [1..k -> SubdirNames] : k \in 0..(MaxDepth - 1) } }

FsEvent(op, name) == [Op |-> op, Name |-> name]

\* addWatcherRecursive: the path and every directory below it are added.
addWatcherRecursive(dirs, path) ==
    { d \in dirs : Len(d) >= Len(path) /\ SubSeq(d, 1, Len(path)) = path }

\* After "Started watching": the tree as it was found is on the watch list.
WatchInit ==
    /\ \E S \in SUBSET { Join(watchPath, "n") } :
          watch = [NoWatch EXCEPT
                      !.dirs = {watchPath} \cup S,
                      !.watched = addWatcherRecursive({watchPath} \cup S, watchPath)]
    /\ doc = <<>>
    /\ prompt = NoPrompt
    /\ reply = <<>>
    /\ extracted = NotParsed
    /\ ctx = NoCtx
    /\ att = NoAtt
    /\ registry = NoRegistry
    /\ MainQuiet

\* Somebody creates the directory d; the kernel reports it when the parent
\* is on the watch list.
Mkdir(d) ==
    /\ d \notin watch.dirs
    /\ Dir(d) \in watch.dirs
    /\ Cardinality(watch.created) < MaxNewDirs
    /\ watch' = [watch EXCEPT
                    !.dirs = @ \cup {d},
                    !.created = @ \cup {d},
                    !.queue = IF Dir(d) \in watch.watched
                              THEN Append(@, FsEvent("Create", d)) ELSE @]
    /\ UNCHANGED <<doc, prompt, reply, extracted, ctx, att, registry, mainVars>>

\* Somebody writes prompt.txt in the directory d; the kernel reports it
\* when d is on the watch list.
WritePrompt(d) ==
    /\ d \in watch.dirs
    /\ d \notin watch.written
    /\ watch' = [watch EXCEPT
                    !.queue = IF d \in watch.watched
                              THEN Append(@, FsEvent("Write", Append(d, promptFn)))
                              ELSE @,
                    !.written = @ \cup {d}]
    /\ UNCHANGED <<doc, prompt, reply, extracted, ctx, att, registry, mainVars>>

\* case event := <-watcher.Events with the Write bit: a prompt.txt starts
\* handleUserMessage on its directory.
HandleWrite ==
    /\ watch.queue # <<>>
    /\ Head(watch.queue).Op = "Write"
    /\ LET name == Head(watch.queue).Name IN
       watch' = [watch EXCEPT
                    !.queue = Tail(@),
                    !.triggered = IF name[Len(name)] = promptFn
                                  THEN @ \cup {Dir(name)} ELSE @]
    /\ UNCHANGED <<doc, prompt, reply, extracted, ctx, att, registry, mainVars>>

\* ... with the Create bit: os.Stat, and watcher.Add of a directory, which
\* adds that directory alone.
HandleCreate ==
    /\ watch.queue # <<>>
    /\ Head(watch.queue).Op = "Create"
    /\ LET name == Head(watch.queue).Name IN
       watch' = [watch EXCEPT
                    !.queue = Tail(@),
                    !.watched = IF name \in watch.dirs THEN @ \cup {name} ELSE @]
    /\ UNCHANGED <<doc, prompt, reply, extracted, ctx, att, registry, mainVars>>

WatchNext ==
    \/ \E d \in TreeDirs : Mkdir(d)
    \/ \E d \in TreeDirs : WritePrompt(d)
    \/ HandleWrite
    \/ HandleCreate

SpecWatch == WatchInit /\ [][WatchNext]_vars

\* The event goroutine loops for ever: a pending event is handled.
FairSpecWatch == SpecWatch /\ WF_vars(HandleWrite) /\ WF_vars(HandleCreate)

\* C30: every directory created under the watched tree after the start is
\* eventually on the watch list.
C30_CreatedDirsWatched ==
    \A d \in TreeDirs : [](d \in watch.created => <>(d \in watch.watched))

====
